---- MODULE Spec2Model ----
(***************************************************************************)
(* Model of nas-config-gui.c: the Config record, the line-oriented         *)
(* load_config / save_config pair over the configuration file, and the     *)
(* GTK handlers (add / remove device, save, restart service).              *)
(*                                                                         *)
(* A C string is modelled as a sequence of one-character strings, so that  *)
(* strchr, strstr, strncpy, fgets, atoi and printf's %d act on characters  *)
(* exactly as the C library does.                                          *)
(***************************************************************************)
EXTENDS Integers, Sequences, FiniteSets, TLC

\* ---------------------------------------------------------------- constants
MAX_LINE == 1024

MAX_NAS_DEVICES == 10

\* char section[64] in load_config
SECTION_SIZE == 64

\* chmod(path, 0600)
MODE_0600 == 6 * 64

\* mode of a file created by fopen(path, "w") under the usual umask 022
MODE_CREATE == 6 * 64 + 4 * 8 + 4

\* ------------------------------------------------------------ C string ops
Min(a, b) == IF a <= b THEN a ELSE b

\* the first n characters of s (all of s when it is shorter)
Take(s, n) == SubSeq(s, 1, Min(Len(s), n))

\* s without its first n characters (the C pointer s + n)
Drop(s, n) == SubSeq(s, n + 1, Len(s))

\* strchr(s, c): index (1-based) of the first c in s, 0 when there is none
strchr(s, c) ==
    LET I == {i \in 1..Len(s) : s[i] = c}
    IN  IF I = {} THEN 0 ELSE CHOOSE i \in I : \A j \in I : i <= j

\* strstr(s, "/") != NULL for a one-character needle
strstr(s, c) == \E i \in 1..Len(s) : s[i] = c

\* strspn(s, " \t") == strlen(s)
AllBlank(s) == \A i \in 1..Len(s) : s[i] \in {" ", "\t"}

\* strncpy(dst, src, n) into a buffer whose byte n is always NUL (the buffers
\* are zero-initialised, of size n + 1, and nothing ever writes byte n except
\* a terminating NUL): the resulting C string is the first n characters of src
strncpy(src, n) == Take(src, n)

\* while (*p == ' ' || *p == '\t') p++;
SkipBlank(s) ==
    LET I == {i \in 1..Len(s) : s[i] \notin {" ", "\t"}}
    IN  IF I = {} THEN <<>>
        ELSE Drop(s, (CHOOSE i \in I : \A j \in I : i <= j) - 1)

Digits == <<"0", "1", "2", "3", "4", "5", "6", "7", "8", "9">>

IsDigit(c) == \E d \in 1..10 : Digits[d] = c

DigitVal(c) == (CHOOSE d \in 1..10 : Digits[d] = c) - 1

RECURSIVE DigitsVal(_)
DigitsVal(ds) ==
    IF ds = <<>> THEN 0
    ELSE DigitsVal(SubSeq(ds, 1, Len(ds) - 1)) * 10 + DigitVal(ds[Len(ds)])

\* the leading run of decimal digits of s
DigitPrefix(s) ==
    LET I == {i \in 1..Len(s) : ~IsDigit(s[i])}
    IN  IF I = {} THEN s
        ELSE Take(s, (CHOOSE i \in I : \A j \in I : i <= j) - 1)

\* a conversion that reports a value without digits as -1 instead of 0
atoi_minus_one(s) ==
    LET t == SkipBlank(s)
        u == IF t # <<>> /\ t[1] \in {"-", "+"} THEN Drop(t, 1) ELSE t
    IN  IF DigitPrefix(u) = <<>> THEN -1
        ELSE IF t[1] = "-" THEN 0 - DigitsVal(DigitPrefix(u))
        ELSE DigitsVal(DigitPrefix(u))

\* atoi(s): skip white space, an optional sign, then the leading digits;
\* 0 when there are none
atoi(s) ==
    LET I == {i \in 1..Len(s) : s[i] \notin {" ", "\t", "\n", "\r", "\f"}}
        t == IF I = {} THEN <<>>
             ELSE Drop(s, (CHOOSE i \in I : \A j \in I : i <= j) - 1)
    IN  IF t # <<>> /\ t[1] = "-" THEN 0 - DigitsVal(DigitPrefix(Drop(t, 1)))
        ELSE IF t # <<>> /\ t[1] = "+" THEN DigitsVal(DigitPrefix(Drop(t, 1)))
        ELSE DigitsVal(DigitPrefix(t))

RECURSIVE NatToStr(_)
NatToStr(n) ==
    IF n < 10 THEN <<Digits[n + 1]>>
    ELSE NatToStr(n \div 10) \o <<Digits[(n % 10) + 1]>>

\* printf's %d
IntToStr(n) == IF n < 0 THEN <<"-">> \o NatToStr(0 - n) ELSE NatToStr(n)

\* ------------------------------------------------------------------ Config
\* AppData app = {0}: every field of the Config is zero
ZeroConfig ==
    [home_networks         |-> <<>>,
     nas_devices           |-> [i \in 0..(MAX_NAS_DEVICES - 1) |-> <<>>],
     nas_count             |-> 0,
     home_ac_interval      |-> 0,
     home_battery_interval |-> 0,
     away_ac_interval      |-> 0,
     away_battery_interval |-> 0,
     max_failed_attempts   |-> 0,
     min_battery_level     |-> 0,
     enable_notifications  |-> FALSE]

\* set_defaults without the line for min_battery_level
set_defaults_no_battery(config) ==
    [config EXCEPT !.home_networks         = <<>>,
                   !.nas_count             = 0,
                   !.home_ac_interval      = 15,
                   !.home_battery_interval = 60,
                   !.away_ac_interval      = 180,
                   !.away_battery_interval = 600,
                   !.max_failed_attempts   = 3,
                   !.enable_notifications  = TRUE]

set_defaults(config) ==
    [config EXCEPT !.home_networks         = <<>>,
                   !.nas_count             = 0,
                   !.home_ac_interval      = 15,
                   !.home_battery_interval = 60,
                   !.away_ac_interval      = 180,
                   !.away_battery_interval = 600,
                   !.max_failed_attempts   = 3,
                   !.min_battery_level     = 10,
                   !.enable_notifications  = TRUE]

\* the keys load_config recognises
IntKeys ==
    [home_ac_interval      |-> <<"h","o","m","e","_","a","c","_","i","n","t","e","r","v","a","l">>,
     home_battery_interval |-> <<"h","o","m","e","_","b","a","t","t","e","r","y","_","i","n","t","e","r","v","a","l">>,
     away_ac_interval      |-> <<"a","w","a","y","_","a","c","_","i","n","t","e","r","v","a","l">>,
     away_battery_interval |-> <<"a","w","a","y","_","b","a","t","t","e","r","y","_","i","n","t","e","r","v","a","l">>,
     max_failed_attempts   |-> <<"m","a","x","_","f","a","i","l","e","d","_","a","t","t","e","m","p","t","s">>,
     min_battery_level     |-> <<"m","i","n","_","b","a","t","t","e","r","y","_","l","e","v","e","l">>]

KEY_home_networks == <<"h","o","m","e","_","n","e","t","w","o","r","k","s">>

KEY_enable_notifications == <<"e","n","a","b","l","e","_","n","o","t","i","f","i","c","a","t","i","o","n","s">>

SECTION_nas_devices == <<"n","a","s","_","d","e","v","i","c","e","s">>

TOKEN_true == <<"t","r","u","e">>

TOKEN_false == <<"f","a","l","s","e">>

\* -------------------------------------------------------------- load_config
\* the successive results of fgets(line, sizeof(line), file): each holds at
\* most MAX_LINE - 1 characters and ends after the first newline, if one is
\* among them
RECURSIVE fgets(_)
fgets(content) ==
    IF content = <<>> THEN <<>>
    ELSE LET nl == strchr(Take(content, MAX_LINE - 1), "\n")
             n  == IF nl = 0 THEN Min(Len(content), MAX_LINE - 1) ELSE nl
         IN  <<Take(content, n)>> \o fgets(Drop(content, n))

\* the key=value branch of the loop body
ParseKeyValue(config, line, equals) ==
    LET key   == SkipBlank(Take(line, equals - 1))
        value == SkipBlank(Drop(line, equals))
    IN  IF key = KEY_home_networks
          THEN [config EXCEPT !.home_networks = strncpy(value, MAX_LINE - 1)]
        ELSE IF key = IntKeys.home_ac_interval
          THEN [config EXCEPT !.home_ac_interval = atoi(value)]
        ELSE IF key = IntKeys.home_battery_interval
          THEN [config EXCEPT !.home_battery_interval = atoi(value)]
        ELSE IF key = IntKeys.away_ac_interval
          THEN [config EXCEPT !.away_ac_interval = atoi(value)]
        ELSE IF key = IntKeys.away_battery_interval
          THEN [config EXCEPT !.away_battery_interval = atoi(value)]
        ELSE IF key = IntKeys.max_failed_attempts
          THEN [config EXCEPT !.max_failed_attempts = atoi(value)]
        ELSE IF key = IntKeys.min_battery_level
          THEN [config EXCEPT !.min_battery_level = atoi(value)]
        ELSE IF key = KEY_enable_notifications
          THEN [config EXCEPT !.enable_notifications = (value = TOKEN_true)]
        ELSE config

\* one pass of the while loop: st = [config, section], raw = what fgets read
ParseLine(st, raw) ==
    LET newline == strchr(raw, "\n")
        line    == IF newline = 0 THEN raw ELSE Take(raw, newline - 1)
        equals  == strchr(line, "=")
    IN  IF line = <<>> \/ line[1] = "#" \/ AllBlank(line)
          THEN st
        ELSE IF line[1] = "[" /\ line[Len(line)] = "]"
          THEN LET s == strncpy(Drop(line, 1), SECTION_SIZE - 1)
               IN  [st EXCEPT !.section = Take(s, Len(s) - 1)]
        ELSE IF equals # 0
          THEN [st EXCEPT !.config = ParseKeyValue(st.config, line, equals)]
        ELSE IF /\ st.section = SECTION_nas_devices
                /\ strstr(line, "/")
                /\ st.config.nas_count < MAX_NAS_DEVICES
          THEN [st EXCEPT
                  !.config.nas_devices[st.config.nas_count] =
                      strncpy(line, MAX_LINE - 1),
                  !.config.nas_count = st.config.nas_count + 1]
        ELSE st

RECURSIVE ParseLines(_, _, _)
ParseLines(st, lines, i) ==
    IF i > Len(lines) THEN st
    ELSE ParseLines(ParseLine(st, lines[i]), lines, i + 1)

\* fopen(path, "r") succeeds on an existing file whose owner may read it
CanRead(file) == file.exists /\ (file.mode \div 256) % 2 = 1

\* load_config: file is [exists, content, mode]; the result is the return
\* value and the Config left in app->config
load_config(config, file) ==
    IF ~CanRead(file)
      THEN [ret |-> FALSE, config |-> set_defaults(config)]
    ELSE [ret    |-> TRUE,
          config |-> ParseLines([config  |-> set_defaults(config),
                                 section |-> <<>>],
                                fgets(file.content), 1).config]

\* -------------------------------------------------------------- save_config
\* the fprintf calls of save_config, in order
SaveWrites(config) ==
       << [call |-> "fprintf", text |-> <<"#"," ","N","A","S"," ","M","o","n","i","t","o","r"," ","C","o","n","f","i","g","u","r","a","t","i","o","n"," ","F","i","l","e","\n","\n">>],
          [call |-> "fprintf", text |-> <<"[","n","e","t","w","o","r","k","s","]","\n">>],
          [call |-> "fprintf",
           text |-> <<"#"," ","C","o","m","m","a","-","s","e","p","a","r","a","t","e","d"," ","l","i","s","t"," ","o","f"," ","h","o","m","e"," ","n","e","t","w","o","r","k"," ","S","S","I","D","s","\n">>],
          [call |-> "fprintf",
           text |-> <<"h","o","m","e","_","n","e","t","w","o","r","k","s","=">> \o config.home_networks \o <<"\n","\n">>],
          [call |-> "fprintf", text |-> <<"[","n","a","s","_","d","e","v","i","c","e","s","]","\n">>],
          [call |-> "fprintf",
           text |-> <<"#"," ","F","o","r","m","a","t",":"," ","h","o","s","t","/","s","h","a","r","e"," ","(","o","n","e"," ","p","e","r"," ","l","i","n","e",")","\n">>] >>
    \o [i \in 1..config.nas_count |->
          [call |-> "fprintf", text |-> config.nas_devices[i - 1] \o <<"\n">>]]
    \o << [call |-> "fprintf", text |-> <<"\n","[","i","n","t","e","r","v","a","l","s","]","\n">>],
          [call |-> "fprintf", text |-> <<"#"," ","C","h","e","c","k"," ","i","n","t","e","r","v","a","l","s"," ","i","n"," ","s","e","c","o","n","d","s","\n">>],
          [call |-> "fprintf",
           text |-> <<"h","o","m","e","_","a","c","_","i","n","t","e","r","v","a","l","=">>
                    \o IntToStr(config.home_ac_interval) \o <<"\n">>],
          [call |-> "fprintf",
           text |-> <<"h","o","m","e","_","b","a","t","t","e","r","y","_","i","n","t","e","r","v","a","l","=">>
                    \o IntToStr(config.home_battery_interval) \o <<"\n">>],
          [call |-> "fprintf",
           text |-> <<"a","w","a","y","_","a","c","_","i","n","t","e","r","v","a","l","=">>
                    \o IntToStr(config.away_ac_interval) \o <<"\n">>],
          [call |-> "fprintf",
           text |-> <<"a","w","a","y","_","b","a","t","t","e","r","y","_","i","n","t","e","r","v","a","l","=">>
                    \o IntToStr(config.away_battery_interval) \o <<"\n">>],
          [call |-> "fprintf", text |-> <<"\n","[","b","e","h","a","v","i","o","r","]","\n">>],
          [call |-> "fprintf",
           text |-> <<"m","a","x","_","f","a","i","l","e","d","_","a","t","t","e","m","p","t","s","=">>
                    \o IntToStr(config.max_failed_attempts) \o <<"\n">>],
          [call |-> "fprintf",
           text |-> <<"m","i","n","_","b","a","t","t","e","r","y","_","l","e","v","e","l","=">>
                    \o IntToStr(config.min_battery_level) \o <<"\n">>],
          [call |-> "fprintf",
           text |-> <<"e","n","a","b","l","e","_","n","o","t","i","f","i","c","a","t","i","o","n","s","=">>
                    \o (IF config.enable_notifications
                        THEN TOKEN_true ELSE TOKEN_false) \o <<"\n">>] >>

\* save_config with the permission step moved behind the writes and the close
SaveCalls_chmod_last(config) ==
    SaveWrites(config)
    \o << [call |-> "fclose"], [call |-> "chmod", mode |-> MODE_0600] >>

\* the library calls save_config makes once fopen has succeeded, in order
SaveCalls(config) ==
    << [call |-> "chmod", mode |-> MODE_0600] >>
    \o SaveWrites(config)
    \o << [call |-> "fclose"] >>

\* the effect of one library call on the file
DoCall(file, c) ==
    IF c.call = "fopen"
      THEN [file EXCEPT !.exists  = TRUE,
                        !.content = <<>>,
                        !.mode    = IF file.exists THEN file.mode
                                    ELSE MODE_CREATE]
    ELSE IF c.call = "chmod"
      THEN IF file.exists THEN [file EXCEPT !.mode = c.mode] ELSE file
    ELSE IF c.call = "fprintf"
      THEN [file EXCEPT !.content = file.content \o c.text]
    ELSE file

RECURSIVE DoCalls(_, _, _)
DoCalls(file, calls, i) ==
    IF i > Len(calls) THEN file
    ELSE DoCalls(DoCall(file, calls[i]), calls, i + 1)

\* save_config: ret is the return value, calls the library calls made, file
\* the file afterwards; canOpen tells whether fopen(path, "w") succeeds
save_config(config, file, canOpen) ==
    IF ~canOpen
      THEN [ret |-> FALSE, calls |-> <<[call |-> "fopen"]>>, file |-> file]
    ELSE LET calls == <<[call |-> "fopen"]>> \o SaveCalls(config)
         IN  [ret |-> TRUE, calls |-> calls, file |-> DoCalls(file, calls, 1)]

\* --------------------------------------------------------------- the form
\* the widgets as create_ui leaves them: empty entry and list, no row
\* selected, each spin button at the lower end of its range, check box off,
\* empty status label
create_ui ==
    [networks_entry      |-> <<>>,
     nas_listbox         |-> <<>>,
     selected            |-> -1,
     home_ac_spin        |-> 5,
     home_battery_spin   |-> 10,
     away_ac_spin        |-> 30,
     away_battery_spin   |-> 60,
     max_attempts_spin   |-> 1,
     min_battery_spin    |-> 5,
     notifications_check |-> FALSE,
     status_label        |-> ""]

\* gtk_spin_button_set_value keeps the value inside the range of the button
Clamp(v, lo, hi) == IF v < lo THEN lo ELSE IF v > hi THEN hi ELSE v

\* the list box is emptied (which drops the selection) and refilled with one
\* row per stored device
update_ui_from_config(ui, config) ==
    [ui EXCEPT
       !.networks_entry      = config.home_networks,
       !.home_ac_spin        = Clamp(config.home_ac_interval, 5, 3600),
       !.home_battery_spin   = Clamp(config.home_battery_interval, 10, 3600),
       !.away_ac_spin        = Clamp(config.away_ac_interval, 30, 3600),
       !.away_battery_spin   = Clamp(config.away_battery_interval, 60, 3600),
       !.max_attempts_spin   = Clamp(config.max_failed_attempts, 1, 10),
       !.min_battery_spin    = Clamp(config.min_battery_level, 5, 50),
       !.notifications_check = config.enable_notifications,
       !.nas_listbox         = [i \in 1..config.nas_count |->
                                  config.nas_devices[i - 1]],
       !.selected            = -1]

update_config_from_ui(config, ui) ==
    [config EXCEPT
       !.home_networks         = strncpy(ui.networks_entry, MAX_LINE - 1),
       !.home_ac_interval      = ui.home_ac_spin,
       !.home_battery_interval = ui.home_battery_spin,
       !.away_ac_interval      = ui.away_ac_spin,
       !.away_battery_interval = ui.away_battery_spin,
       !.max_failed_attempts   = ui.max_attempts_spin,
       !.min_battery_level     = ui.min_battery_spin,
       !.enable_notifications  = ui.notifications_check]

\* the test of on_add_nas_clicked without its check for the separator
AddAccepted_no_separator_check(config, text) ==
    /\ Len(text) > 0
    /\ config.nas_count < MAX_NAS_DEVICES

\* the test on_add_nas_clicked makes on the text of the dialog
AddAccepted(config, text) ==
    /\ Len(text) > 0
    /\ strstr(text, "/")
    /\ config.nas_count < MAX_NAS_DEVICES

\* the Config after the body of the accepting branch of on_add_nas_clicked
AddDevice(config, text) ==
    [config EXCEPT
       !.nas_devices[config.nas_count] = strncpy(text, MAX_LINE - 1),
       !.nas_count = config.nas_count + 1]

\* on_remove_nas_clicked's shift loop started one place too late: the entry
\* at index stays and the one after it is overwritten
RemoveDevice_shift_late(config, index) ==
    [config EXCEPT
       !.nas_devices = [i \in 0..(MAX_NAS_DEVICES - 1) |->
                          IF index + 1 <= i /\ i < config.nas_count - 1
                          THEN config.nas_devices[i + 1]
                          ELSE config.nas_devices[i]],
       !.nas_count = config.nas_count - 1]

\* the Config after the shift loop and the decrement of on_remove_nas_clicked
RemoveDevice(config, index) ==
    [config EXCEPT
       !.nas_devices = [i \in 0..(MAX_NAS_DEVICES - 1) |->
                          IF index <= i /\ i < config.nas_count - 1
                          THEN config.nas_devices[i + 1]
                          ELSE config.nas_devices[i]],
       !.nas_count = config.nas_count - 1]

\* ------------------------------------------------------------------- bounds
\* handler runs (clicks and edits) followed after start-up
MaxOps == 4

\* --------------------------------------------------------------- the state
VARIABLES
    pc,        \* "start" before main has run, "running" inside gtk_main
    config,    \* app.config
    ui,        \* the widgets of app
    file,      \* the file at config_path: [exists, content, mode]
    dialogs,   \* the message dialogs the last handler showed
    calls,     \* the names of the library calls of the last save_config
    last,      \* the last handler run and what it returned
    saved,     \* <<the Config the last successful save_config wrote>>, or <<>>
    ops        \* handler runs so far

vars == <<pc, config, ui, file, dialogs, calls, last, saved, ops>>

NoFile == [exists |-> FALSE, content |-> <<>>, mode |-> 0]

\* a file with nine devices, as an earlier run may have left it
NineDeviceFile ==
    [exists  |-> TRUE,
     mode    |-> MODE_0600,
     content |-> <<"[","n","a","s","_","d","e","v","i","c","e","s","]","\n","n","1","/","s","\n","n","2","/","s","\n","n","3","/","s","\n","n","4","/","s","\n","n","5","/","s","\n","n","6","/","s","\n","n","7","/","s","\n","n","8","/","s","\n","n","9","/","s","\n">>
                 \o <<"[","i","n","t","e","r","v","a","l","s","]","\n","h","o","m","e","_","a","c","_","i","n","t","e","r","v","a","l","=","0","\n">>]

\* a file with one device line more than the Config has room for
ElevenDeviceFile ==
    [exists  |-> TRUE,
     mode    |-> MODE_CREATE,
     content |-> <<"[","n","a","s","_","d","e","v","i","c","e","s","]","\n","n","1","/","s","\n","n","2","/","s","\n","n","3","/","s","\n","n","4","/","s","\n","n","5","/","s","\n","n","6","/","s","\n","n","7","/","s","\n","n","8","/","s","\n","n","9","/","s","\n","n","1","0","/","s","\n","n","1","1","/","s","\n">>]

InitFiles == {NoFile, NineDeviceFile, ElevenDeviceFile}

\* a text one character longer than a device buffer holds, its only "/" last
LongText == [i \in 1..(MAX_LINE - 1) |-> "a"] \o <<"/">>

\* what the user may type into the Add dialog
AddTexts == {<<>>, <<"n","a","s">>, <<"h","/","s">>, LongText}

\* what the user may type into the networks entry
NetworkTexts == {<<"H","o","m","e">>}

Init ==
    /\ pc = "start"
    /\ config = ZeroConfig
    /\ ui = create_ui
    /\ file \in InitFiles
    /\ dialogs = <<>>
    /\ calls = <<>>
    /\ last = [op |-> "none", ret |-> FALSE]
    /\ saved = <<>>
    /\ ops = 0

\* main: load_config, create_ui, update_ui_from_config, then gtk_main
main ==
    /\ pc = "start"
    /\ LET r == load_config(config, file)
       IN  /\ config' = r.config
           /\ ui' = update_ui_from_config(create_ui, r.config)
           /\ last' = [op |-> "load_config", ret |-> r.ret]
    /\ pc' = "running"
    /\ dialogs' = <<>>
    /\ calls' = <<>>
    /\ UNCHANGED <<file, saved, ops>>

Running == pc = "running" /\ ops < MaxOps

\* the user clicks a row of the device list
select_row(i) ==
    /\ Running
    /\ i \in 0..(Len(ui.nas_listbox) - 1)
    /\ ui' = [ui EXCEPT !.selected = i]
    /\ last' = [op |-> "select_row", ret |-> TRUE]
    /\ dialogs' = <<>>
    /\ ops' = ops + 1
    /\ UNCHANGED <<pc, config, file, calls, saved>>

\* the user edits the networks entry, a spin button or the check box
edit_form(text, v, b) ==
    /\ Running
    /\ ui' = [ui EXCEPT !.networks_entry = text,
                        !.home_ac_spin = Clamp(v, 5, 3600),
                        !.notifications_check = b]
    /\ ui' # ui
    /\ last' = [op |-> "edit_form", ret |-> TRUE]
    /\ dialogs' = <<>>
    /\ ops' = ops + 1
    /\ UNCHANGED <<pc, config, file, calls, saved>>

\* response: how the Add dialog was closed; text: the text of its entry
on_add_nas_clicked(response, text) ==
    /\ Running
    /\ IF response = "OK" /\ AddAccepted(config, text)
         THEN /\ config' = AddDevice(config, text)
              /\ ui' = update_ui_from_config(ui, config')
              /\ last' = [op |-> "on_add_nas_clicked", ret |-> TRUE]
         ELSE /\ UNCHANGED <<config, ui>>
              /\ last' = [op |-> "on_add_nas_clicked", ret |-> FALSE]
    /\ dialogs' = <<>>
    /\ ops' = ops + 1
    /\ UNCHANGED <<pc, file, calls, saved>>

\* on_remove_nas_clicked without its check that a row is selected
on_remove_nas_clicked_unchecked ==
    /\ Running
    /\ config' = RemoveDevice(config, ui.selected)
    /\ ui' = update_ui_from_config(ui, config')
    /\ dialogs' = <<>>
    /\ last' = [op |-> "on_remove_nas_clicked", ret |-> TRUE]
    /\ ops' = ops + 1
    /\ UNCHANGED <<pc, file, calls, saved>>

on_remove_nas_clicked ==
    /\ Running
    /\ IF ui.selected = -1
         THEN /\ dialogs' = <<[kind |-> "info",
                               message |-> "Please select a NAS device to remove."]>>
              /\ last' = [op |-> "on_remove_nas_clicked", ret |-> FALSE]
              /\ UNCHANGED <<config, ui>>
         ELSE /\ config' = RemoveDevice(config, ui.selected)
              /\ ui' = update_ui_from_config(ui, config')
              /\ dialogs' = <<>>
              /\ last' = [op |-> "on_remove_nas_clicked", ret |-> TRUE]
    /\ ops' = ops + 1
    /\ UNCHANGED <<pc, file, calls, saved>>

\* on_save_clicked: update_config_from_ui, then save_config
on_save_clicked(canOpen) ==
    /\ Running
    /\ LET c == update_config_from_ui(config, ui)
           r == save_config(c, file, canOpen)
       IN  /\ config' = c
           /\ file' = r.file
           /\ calls' = [i \in 1..Len(r.calls) |-> r.calls[i].call]
           /\ last' = [op |-> "save_config", ret |-> r.ret]
           /\ saved' = IF r.ret THEN <<c>> ELSE saved
           /\ IF r.ret
                THEN /\ ui' = [ui EXCEPT !.status_label =
                                  "Configuration saved successfully"]
                     /\ dialogs' = <<>>
                ELSE /\ ui' = ui
                     /\ dialogs' = <<[kind |-> "error",
                                      message |-> "Failed to save configuration"]>>
    /\ ops' = ops + 1
    /\ UNCHANGED pc

\* result: the exit status system() returns for the systemctl command
on_restart_service_clicked(result) ==
    /\ Running
    /\ ui' = [ui EXCEPT !.status_label =
                IF result = 0 THEN "Service restarted successfully"
                ELSE "Failed to restart service"]
    /\ last' = [op |-> "on_restart_service_clicked", ret |-> (result = 0)]
    /\ dialogs' = <<>>
    /\ ops' = ops + 1
    /\ UNCHANGED <<pc, config, file, calls, saved>>

Next ==
    \/ main
    \/ \E i \in 0..(MAX_NAS_DEVICES - 1) : select_row(i)
    \/ \E t \in NetworkTexts, v \in {20}, b \in BOOLEAN : edit_form(t, v, b)
    \/ \E response \in {"OK", "CANCEL"}, t \in AddTexts :
          on_add_nas_clicked(response, t)
    \/ on_remove_nas_clicked
    \/ \E canOpen \in BOOLEAN : on_save_clicked(canOpen)
    \/ \E result \in {0, 1} : on_restart_service_clicked(result)

Spec == Init /\ [][Next]_vars

\* ------------------------------------------------- loading arbitrary files
\* lines a configuration file given to load_config may hold
MaxFileLines == 2

\* a line longer than the line buffer, its only "/" beyond the buffer's reach
LongLine == [i \in 1..(MAX_LINE - 1) |-> "a"] \o <<"/","x">>

LinePool ==
    { <<"[","n","a","s","_","d","e","v","i","c","e","s","]">>, <<"[","n","e","t","w","o","r","k","s","]">>, <<"h","/","s">>, <<"#","c","/","d">>, <<"x","/","y","=","1">>,
      <<"n","o","d","e","v","i","c","e">>, <<" ">>, LongLine,
      <<"h","o","m","e","_","a","c","_","i","n","t","e","r","v","a","l","=","a","b","c">>, <<"h","o","m","e","_","a","c","_","i","n","t","e","r","v","a","l","=","2","0">>,
      <<"m","i","n","_","b","a","t","t","e","r","y","_","l","e","v","e","l","="," ","7","x">>, <<"m","a","x","_","f","a","i","l","e","d","_","a","t","t","e","m","p","t","s","=","-","2">>,
      <<"e","n","a","b","l","e","_","n","o","t","i","f","i","c","a","t","i","o","n","s","=","T","R","U","E">>, <<"e","n","a","b","l","e","_","n","o","t","i","f","i","c","a","t","i","o","n","s","=","f","a","l","s","e">>,
      <<"b","o","g","u","s","=","5">>, <<"h","o","m","e","_","n","e","t","w","o","r","k","s","="," ","O","f","f","i","c","e",",","H","o","m","e">> }

SeqsUpTo(S, n) == UNION {[1..k -> S] : k \in 0..n}

\* the text of a file holding the given lines, each ended by a newline
RECURSIVE FileOfLines(_)
FileOfLines(ls) ==
    IF ls = <<>> THEN <<>>
    ELSE Head(ls) \o <<"\n">> \o FileOfLines(Tail(ls))

NineDeviceLines ==
    << <<"[","n","a","s","_","d","e","v","i","c","e","s","]">>, <<"n","1","/","s">>, <<"n","2","/","s">>, <<"n","3","/","s">>, <<"n","4","/","s">>, <<"n","5","/","s">>,
       <<"n","6","/","s">>, <<"n","7","/","s">>, <<"n","8","/","s">>, <<"n","9","/","s">> >>

LoadFiles ==
    {NoFile, [exists |-> TRUE, content |-> <<"h","o","m","e","_","a","c","_","i","n","t","e","r","v","a","l","=","2","0","\n">>, mode |-> 0]}
    \cup { [exists  |-> TRUE,
            mode    |-> MODE_CREATE,
            content |-> FileOfLines(base \o ls)] :
           base \in {<<>>, NineDeviceLines},
           ls \in SeqsUpTo(LinePool, MaxFileLines) }

InitLoad ==
    /\ pc = "start"
    /\ config = ZeroConfig
    /\ ui = create_ui
    /\ file \in LoadFiles
    /\ dialogs = <<>>
    /\ calls = <<>>
    /\ last = [op |-> "none", ret |-> FALSE]
    /\ saved = <<>>
    /\ ops = 0

NextLoad == main

SpecLoad == InitLoad /\ [][NextLoad]_vars

\* ------------------------------------------------ saving and loading again
\* devices in a list the round trip starts from
MaxRTDevices == 2

RTNetworks == {<<>>, <<"H","o","m","e",",","O","f","f","i","c","e">>, <<" ","H","o","m","e">>}

RTDevices == {<<"h","/","s">>, <<"#","h","/","s">>, <<"h","/","s","=","1">>, <<"[","h","/","s","]">>, <<" ","h","/","s">>}

TenDevices ==
    << <<"n","1","/","s">>, <<"n","2","/","s">>, <<"n","3","/","s">>, <<"n","4","/","s">>, <<"n","5","/","s">>,
       <<"n","6","/","s">>, <<"n","7","/","s">>, <<"n","8","/","s">>, <<"n","9","/","s">>, <<"n","1","0","/","s">> >>

\* interval, attempt and battery values inside the ranges of the spin buttons
RTNumbers == {<<15, 60, 180, 600, 3, 10>>, <<5, 10, 30, 60, 1, 5>>,
              <<3600, 3600, 3600, 3600, 10, 50>>}

MakeConfig(networks, devices, n, b) ==
    [home_networks         |-> networks,
     nas_devices           |-> [i \in 0..(MAX_NAS_DEVICES - 1) |->
                                  IF i < Len(devices) THEN devices[i + 1]
                                  ELSE <<>>],
     nas_count             |-> Len(devices),
     home_ac_interval      |-> n[1],
     home_battery_interval |-> n[2],
     away_ac_interval      |-> n[3],
     away_battery_interval |-> n[4],
     max_failed_attempts   |-> n[5],
     min_battery_level     |-> n[6],
     enable_notifications  |-> b]

RTConfigs ==
    { MakeConfig(networks, devices, n, b) :
        networks \in RTNetworks,
        devices \in SeqsUpTo(RTDevices, MaxRTDevices) \cup {TenDevices},
        n \in RTNumbers,
        b \in BOOLEAN }

\* the editor is running, the form showing the Config, nothing saved yet
InitRT ==
    /\ pc = "running"
    /\ config \in RTConfigs
    /\ ui = update_ui_from_config(create_ui, config)
    /\ file = NoFile
    /\ dialogs = <<>>
    /\ calls = <<>>
    /\ last = [op |-> "none", ret |-> FALSE]
    /\ saved = <<>>
    /\ ops = 0

\* the window is closed (gtk_main_quit, main returns); the next run starts
\* from a zeroed AppData
quit ==
    /\ pc = "running"
    /\ pc' = "start"
    /\ config' = ZeroConfig
    /\ ui' = create_ui
    /\ dialogs' = <<>>
    /\ calls' = <<>>
    /\ last' = [op |-> "quit", ret |-> TRUE]
    /\ UNCHANGED <<file, saved, ops>>

NextRT ==
    \/ \E canOpen \in BOOLEAN : on_save_clicked(canOpen)
    \/ quit
    \/ main

SpecRT == InitRT /\ [][NextRT]_vars

\* ============================================================== properties
\* the devices a Config stores, in order
Devices(c) == [i \in 1..c.nas_count |-> c.nas_devices[i - 1]]

\* C2: in every state reached by the initial load_config followed by add,
\* remove and save actions, 0 <= nas_count <= MAX_NAS_DEVICES, and the row
\* remove would use as its index, when one is selected, is within
\* 0..nas_count-1 (so remove never drives the count below zero).
C2_DeviceCount ==
    /\ config.nas_count \in 0..MAX_NAS_DEVICES
    /\ Len(ui.nas_listbox) = config.nas_count
    /\ ui.selected # -1 => ui.selected \in 0..(config.nas_count - 1)

\* the list was filled to capacity by an add and a remove then took its
\* first row away
C2_Witness ==
    /\ last = [op |-> "on_remove_nas_clicked", ret |-> TRUE]
    /\ config.nas_count = MAX_NAS_DEVICES - 1
    /\ config.nas_devices[MAX_NAS_DEVICES - 2] = <<"h","/","s">>

\* C3: every stored entry nas_devices[i], i < nas_count, is non-empty and
\* contains the separator "/", also when the text added was longer than the
\* entry buffer and was stored truncated.
C3_DeviceEntries ==
    \A i \in 0..(config.nas_count - 1) :
        /\ config.nas_devices[i] # <<>>
        /\ strstr(config.nas_devices[i], "/")

\* what C4 says of a confirmed add of text t
C4_AddEffect(t) ==
    IF Len(t) = 0 \/ ~strstr(t, "/") \/ config.nas_count = MAX_NAS_DEVICES
      THEN config' = config
      ELSE /\ config'.nas_devices[config.nas_count] = t
           /\ config'.nas_count = config.nas_count + 1
           /\ \A i \in 0..(config.nas_count - 1) :
                 config'.nas_devices[i] = config.nas_devices[i]
           /\ [config' EXCEPT !.nas_devices = config.nas_devices,
                              !.nas_count = config.nas_count] = config

\* C4: an add whose text is empty, or holds no "/", or is made with 10
\* devices stored changes neither nas_count nor any entry; any other confirmed
\* add stores the text at index nas_count, increments nas_count by one and
\* leaves the earlier entries and every other field unchanged.
C4_AddValidation ==
    [][\A t \in AddTexts : on_add_nas_clicked("OK", t) => C4_AddEffect(t)]_vars

\* what a confirmed add of text t does: as C4_AddEffect, but the entry stored
\* is the text cut to the MAX_LINE - 1 characters an entry buffer holds
C4_AddEffectTruncating(t) ==
    IF Len(t) = 0 \/ ~strstr(t, "/") \/ config.nas_count = MAX_NAS_DEVICES
      THEN config' = config
      ELSE /\ config'.nas_devices[config.nas_count] = Take(t, MAX_LINE - 1)
           /\ config'.nas_count = config.nas_count + 1
           /\ \A i \in 0..(config.nas_count - 1) :
                 config'.nas_devices[i] = config.nas_devices[i]
           /\ [config' EXCEPT !.nas_devices = config.nas_devices,
                              !.nas_count = config.nas_count] = config

\* C4 amended: a confirmed add whose text is empty, or holds no "/", or is
\* made with 10 devices stored leaves the Config unchanged; any other
\* confirmed add stores the first MAX_LINE - 1 (1023) characters of the text
\* (the whole text when it is no longer than that) at index nas_count,
\* increments nas_count by one and leaves the earlier entries and every other
\* field unchanged.
C4_AddValidationTruncating ==
    [][\A t \in AddTexts :
          on_add_nas_clicked("OK", t) => C4_AddEffectTruncating(t)]_vars

\* an accepted add has put its text into the last of the 10 places
C4_Witness ==
    /\ last = [op |-> "on_add_nas_clicked", ret |-> TRUE]
    /\ config.nas_count = MAX_NAS_DEVICES
    /\ config.nas_devices[MAX_NAS_DEVICES - 1] = <<"h","/","s">>
    /\ config.nas_devices[0] = <<"n","1","/","s">>

\* C8: after Save and Restart-Service actions the status label describes the
\* outcome of the most recent one; it never shows a success text when that
\* action failed.
C8_StatusReflectsLast ==
    /\ last = [op |-> "save_config", ret |-> TRUE]
          => ui.status_label = "Configuration saved successfully"
    /\ last = [op |-> "save_config", ret |-> FALSE]
          => ui.status_label \notin {"Configuration saved successfully",
                                     "Service restarted successfully"}
    /\ last = [op |-> "on_restart_service_clicked", ret |-> TRUE]
          => ui.status_label = "Service restarted successfully"
    /\ last = [op |-> "on_restart_service_clicked", ret |-> FALSE]
          => ui.status_label = "Failed to restart service"

\* C9: every confirmed add that is rejected (no separator in the text, or 10
\* devices already stored) shows the user a message dialog.
C9_RejectedAddNotice ==
    [][\A t \in AddTexts :
          ( /\ on_add_nas_clicked("OK", t)
            /\ (~strstr(t, "/") \/ config.nas_count = MAX_NAS_DEVICES) )
          => dialogs' # <<>>]_vars

\* the positions of the library calls named c in the last save_config
CallsAt(c) == {k \in 1..Len(calls) : calls[k] = c}

\* C10 as stated: save_config opens the file, writes the whole layout and
\* only then restricts the permissions: chmod follows the last content write.
C10_ChmodAfterWrites ==
    last = [op |-> "save_config", ret |-> TRUE]
      => /\ calls[1] = "fopen"
         /\ \E k \in CallsAt("chmod") : \A j \in CallsAt("fprintf") : j < k

\* C10 amended: save_config opens the file, restricts its permissions to 0600
\* at once, and only then writes the whole layout (16 lines and comments plus
\* one line per device) and closes the file: chmod precedes the first write.
C10_ChmodBeforeWrites ==
    last = [op |-> "save_config", ret |-> TRUE]
      => /\ calls[1] = "fopen"
         /\ CallsAt("chmod") = {2}
         /\ CallsAt("fprintf") = 3..(Len(calls) - 1)
         /\ Cardinality(CallsAt("fprintf")) = 16 + config.nas_count
         /\ calls[Len(calls)] = "fclose"
         /\ file.exists /\ file.mode = MODE_0600

\* a save that created the file and wrote at least one device line
C10_Witness ==
    /\ last = [op |-> "save_config", ret |-> TRUE]
    /\ config.nas_count > 0
    /\ file.exists /\ file.mode = MODE_0600
    /\ Len(calls) > 3

\* ----------------------------------------------- properties of load_config
\* the lines of a text: the pieces between its newline characters
RECURSIVE TextLines(_)
TextLines(content) ==
    IF content = <<>> THEN <<>>
    ELSE LET I == {i \in 1..Len(content) : content[i] = "\n"}
         IN  IF I = {} THEN <<content>>
             ELSE LET nl == CHOOSE i \in I : \A j \in I : i <= j
                  IN  <<SubSeq(content, 1, nl - 1)>>
                      \o TextLines(SubSeq(content, nl + 1, Len(content)))

\* a line skipped as a comment or as blank
IsSkipped(l) ==
    l = <<>> \/ l[1] = "#" \/ \A i \in 1..Len(l) : l[i] \in {" ", "\t"}

\* a "[section]" header
IsHeader(l) == ~IsSkipped(l) /\ l[1] = "[" /\ l[Len(l)] = "]"

HasChar(l, c) == \E i \in 1..Len(l) : l[i] = c

\* a key=value line
IsKeyValue(l) == ~IsSkipped(l) /\ ~IsHeader(l) /\ HasChar(l, "=")

TrimLeft(l) ==
    IF l = <<>> \/ l[1] \notin {" ", "\t"} THEN l
    ELSE LET I == {i \in 1..Len(l) : l[i] \notin {" ", "\t"}}
         IN  IF I = {} THEN <<>>
             ELSE SubSeq(l, CHOOSE i \in I : \A j \in I : i <= j, Len(l))

FirstEquals(l) == CHOOSE i \in 1..Len(l) : l[i] = "=" /\ \A j \in 1..(i - 1) : l[j] # "="

\* the key and the value of a key=value line: split at the first "=", leading
\* blanks trimmed from both
KeyOf(l) == TrimLeft(SubSeq(l, 1, FirstEquals(l) - 1))

ValueOf(l) == TrimLeft(SubSeq(l, FirstEquals(l) + 1, Len(l)))

\* the Config field a key names, "" for a key that is not recognised
FieldOfKey(k) ==
    IF k = <<"h","o","m","e","_","n","e","t","w","o","r","k","s">> THEN "home_networks"
    ELSE IF k = <<"h","o","m","e","_","a","c","_","i","n","t","e","r","v","a","l">> THEN "home_ac_interval"
    ELSE IF k = <<"h","o","m","e","_","b","a","t","t","e","r","y","_","i","n","t","e","r","v","a","l">> THEN "home_battery_interval"
    ELSE IF k = <<"a","w","a","y","_","a","c","_","i","n","t","e","r","v","a","l">> THEN "away_ac_interval"
    ELSE IF k = <<"a","w","a","y","_","b","a","t","t","e","r","y","_","i","n","t","e","r","v","a","l">> THEN "away_battery_interval"
    ELSE IF k = <<"m","a","x","_","f","a","i","l","e","d","_","a","t","t","e","m","p","t","s">> THEN "max_failed_attempts"
    ELSE IF k = <<"m","i","n","_","b","a","t","t","e","r","y","_","l","e","v","e","l">> THEN "min_battery_level"
    ELSE IF k = <<"e","n","a","b","l","e","_","n","o","t","i","f","i","c","a","t","i","o","n","s">> THEN "enable_notifications"
    ELSE ""

IntFields ==
    {"home_ac_interval", "home_battery_interval", "away_ac_interval",
     "away_battery_interval", "max_failed_attempts", "min_battery_level"}

KeyFields == IntFields \cup {"home_networks", "enable_notifications"}

\* the documented defaults
Defaults ==
    [home_networks         |-> <<>>,
     nas_count             |-> 0,
     home_ac_interval      |-> 15,
     home_battery_interval |-> 60,
     away_ac_interval      |-> 180,
     away_battery_interval |-> 600,
     max_failed_attempts   |-> 3,
     min_battery_level     |-> 10,
     enable_notifications  |-> TRUE]

\* the device lines of a file: the lines that are not skipped, are no header,
\* hold no "=", hold a "/" and come while the section set by the most recent
\* header is "nas_devices"
RECURSIVE DeviceLines(_, _, _)
DeviceLines(lines, i, section) ==
    IF i > Len(lines) THEN <<>>
    ELSE LET l == lines[i]
         IN  IF IsSkipped(l) THEN DeviceLines(lines, i + 1, section)
             ELSE IF IsHeader(l)
               THEN DeviceLines(lines, i + 1, SubSeq(l, 2, Len(l) - 1))
             ELSE IF /\ ~HasChar(l, "=") /\ HasChar(l, "/")
                     /\ section = <<"n","a","s","_","d","e","v","i","c","e","s">>
               THEN <<l>> \o DeviceLines(lines, i + 1, section)
             ELSE DeviceLines(lines, i + 1, section)

\* main has just run load_config
Loaded == pc = "running" /\ last.op = "load_config"

C6_DeviceLinesOnLoad ==
    (Loaded /\ CanRead(file)) =>
       Devices(config) =
          LET d == DeviceLines(TextLines(file.content), 1, <<>>)
          IN  SubSeq(d, 1, IF Len(d) < MAX_NAS_DEVICES THEN Len(d)
                           ELSE MAX_NAS_DEVICES)

\* a value with no leading number
NonNumeric(v) ==
    LET u == IF v # <<>> /\ v[1] \in {"-", "+"} THEN Tail(v) ELSE v
    IN  u = <<>> \/ u[1] \notin {"0", "1", "2", "3", "4", "5", "6", "7", "8", "9"}

\* a key=value line whose value is malformed or whose key is not recognised
IsMalformed(l) ==
    /\ IsKeyValue(l)
    /\ \/ FieldOfKey(KeyOf(l)) = ""
       \/ FieldOfKey(KeyOf(l)) \in IntFields /\ NonNumeric(ValueOf(l))
       \/ /\ FieldOfKey(KeyOf(l)) = "enable_notifications"
          /\ ValueOf(l) \notin {<<"t","r","u","e">>, <<"f","a","l","s","e">>}

WithoutLine(lines, i) == SubSeq(lines, 1, i - 1) \o SubSeq(lines, i + 1, Len(lines))

\* the file's line i is the last one with its key
LastWithKey(lines, i) ==
    \A j \in (i + 1)..Len(lines) :
        ~(IsKeyValue(lines[j]) /\ KeyOf(lines[j]) = KeyOf(lines[i]))

C11_RemoveEffect(k) ==
    IF k = -1
      THEN config' = config /\ file' = file
      ELSE /\ k \in 0..(config.nas_count - 1)
           /\ config'.nas_count = config.nas_count - 1
           /\ \A i \in 0..(k - 1) :
                 config'.nas_devices[i] = config.nas_devices[i]
           /\ \A i \in (k + 1)..(config.nas_count - 1) :
                 config'.nas_devices[i - 1] = config.nas_devices[i]
           /\ \A f \in KeyFields : config'[f] = config[f]
           /\ file' = file

\* C11: remove at a selected index k (0 <= k < nas_count) decrements
\* nas_count by one, leaves entries 0..k-1 unchanged, moves each entry at
\* i > k to i-1, and changes neither another Settings field nor the file on
\* disk; with no row selected it changes nothing.
C11_RemoveFrame ==
    [][on_remove_nas_clicked => C11_RemoveEffect(ui.selected)]_vars

\* a row in the middle of the nine loaded devices was removed: the later
\* entries moved down and the file still holds all nine
C11_Witness ==
    /\ last = [op |-> "on_remove_nas_clicked", ret |-> TRUE]
    /\ config.nas_count = MAX_NAS_DEVICES - 2
    /\ config.nas_devices[0] = <<"n","1","/","s">>
    /\ config.nas_devices[MAX_NAS_DEVICES - 3] = <<"n","9","/","s">>
    /\ \E i \in 1..(MAX_NAS_DEVICES - 4) :
          config.nas_devices[i] # NineDeviceLines[i + 2]
    /\ file = NineDeviceFile

\* ----------------------------------------------- properties of the round trip
\* the data-model invariant of a Config
DataModelInvariant(c) ==
    /\ c.nas_count \in 0..MAX_NAS_DEVICES
    /\ \A i \in 0..(c.nas_count - 1) :
          c.nas_devices[i] # <<>> /\ HasChar(c.nas_devices[i], "/")

SameSettings(a, b) ==
    /\ \A f \in KeyFields : a[f] = b[f]
    /\ Devices(a) = Devices(b)

\* C1: writing a Config that satisfies the data-model invariant with
\* save_config and reading the file back with load_config yields the same
\* value in every field, the devices the same and in the same order.
C1_RoundTrip ==
    (Loaded /\ saved # <<>> /\ DataModelInvariant(saved[1]))
       => last.ret /\ SameSettings(config, saved[1])

====
